---- MODULE Spec2Model ----
(***************************************************************************)
(* gridwalk: the map viewer's page (src/src/app/page.tsx), its sidebar     *)
(* (src/src/components/sidebar.tsx) and its map component                  *)
(* (src/src/components/Map/Map.tsx), as one state machine over the React   *)
(* state of the page, the browser's local storage and the map instance.    *)
(*                                                                         *)
(* page.tsx holds two revisions of the page.  The first (lines 1-247)      *)
(* stores a dropped file as soon as it is read and has its file handlers   *)
(* inline; the second (lines 249-481) goes through the upload modal and    *)
(* handleLayerNameConfirm.  Both sets of handlers act on the same three    *)
(* lists and the same local-storage keys and are modelled side by side.    *)
(*                                                                         *)
(* Texts (file contents, local-storage values) are sequences of tokens,    *)
(* JSON.parse is a parser over them and JSON.stringify a printer.          *)
(*                                                                         *)
(* The map component is followed through its instances: every initMap      *)
(* call, the maplibregl.Map it creates, and which of them map.current      *)
(* holds.  Request URLs are sequences of characters.  The upload modal     *)
(* (src/unnamed/part_000) and the connections modal (src/unnamed/part_001) *)
(* are part of the same state machine.                                     *)
(***************************************************************************)
EXTENDS Integers, Sequences, FiniteSets, TLC

\* ---------------------------------------------------------------- bounds

\* Longest uploadedFiles list the model lets an upload build.
MaxFiles == 2

\* Most remote-upload requests awaiting their response at once.
MaxInFlight == 1

\* Deepest nesting of dragenter events the model lets a drag reach.
MaxDrag == 2

\* Most fetches of the connections listing awaiting their response at once.
MaxFetches == 2

\* Most initMap calls the map component makes between two page loads.
MaxMaps == 3

\* ------------------------------------------------------------ JSON texts

Tok(k, s) == [k |-> k, s |-> s]

LBRACE == Tok("punct", "{")
RBRACE == Tok("punct", "}")
LBRACK == Tok("punct", "[")
RBRACK == Tok("punct", "]")
COMMA  == Tok("punct", ",")
COLON  == Tok("punct", ":")
\* Insignificant whitespace between two tokens.
WS     == Tok("ws", " ")
\* A double-quoted string literal.
StrTok(s) == Tok("str", s)
\* Characters that begin no JSON value (the letters of a bare URL, of "undefined").
RawTok(s) == Tok("raw", s)

\* JavaScript values as JSON.parse builds them: strings, arrays, objects.
\* An object's items are its members, in order.
JString(s) == [t |-> "string", s |-> s, items |-> <<>>]
JArray(items) == [t |-> "array", s |-> "", items |-> items]
JObject(members) == [t |-> "object", s |-> "", items |-> members]
Member(key, val) == [key |-> key, val |-> val]
JUndefined == [t |-> "undefined", s |-> "", items |-> <<>>]

PFail == [ok |-> FALSE, v |-> JUndefined, next |-> 0]
POk(v, next) == [ok |-> TRUE, v |-> v, next |-> next]

RECURSIVE ParseValue(_, _)
RECURSIVE ParseItems(_, _, _)
RECURSIVE ParseMembers(_, _, _)

\* One JSON value starting at token i of T.
ParseValue(T, i) ==
    IF i > Len(T) THEN PFail
    ELSE IF T[i].k = "str" THEN POk(JString(T[i].s), i + 1)
    ELSE IF T[i] = LBRACK THEN
        IF i + 1 <= Len(T) /\ T[i + 1] = RBRACK
        THEN POk(JArray(<<>>), i + 2)
        ELSE ParseItems(T, i + 1, <<>>)
    ELSE IF T[i] = LBRACE THEN
        IF i + 1 <= Len(T) /\ T[i + 1] = RBRACE
        THEN POk(JObject(<<>>), i + 2)
        ELSE ParseMembers(T, i + 1, <<>>)
    ELSE PFail

\* The elements of an array after its "[" (or after a ","), up to its "]".
ParseItems(T, i, acc) ==
    LET r == ParseValue(T, i) IN
    IF ~r.ok THEN PFail
    ELSE IF r.next <= Len(T) /\ T[r.next] = COMMA
         THEN ParseItems(T, r.next + 1, Append(acc, r.v))
    ELSE IF r.next <= Len(T) /\ T[r.next] = RBRACK
         THEN POk(JArray(Append(acc, r.v)), r.next + 1)
    ELSE PFail

\* The members of an object after its "{" (or after a ","), up to its "}".
ParseMembers(T, i, acc) ==
    IF i + 1 > Len(T) \/ T[i].k # "str" \/ T[i + 1] # COLON THEN PFail
    ELSE LET r == ParseValue(T, i + 2) IN
         IF ~r.ok THEN PFail
         ELSE IF r.next <= Len(T) /\ T[r.next] = COMMA
              THEN ParseMembers(T, r.next + 1, Append(acc, Member(T[i].s, r.v)))
         ELSE IF r.next <= Len(T) /\ T[r.next] = RBRACE
              THEN POk(JObject(Append(acc, Member(T[i].s, r.v))), r.next + 1)
         ELSE PFail

IsNotWS(tok) == tok.k # "ws"

\* JSON.parse(text): [ok, v]; ok is FALSE where JSON.parse throws a SyntaxError.
JSONParse(text) ==
    LET T == SelectSeq(text, IsNotWS)
        r == ParseValue(T, 1)
    IN  IF r.ok /\ r.next = Len(T) + 1
        THEN [ok |-> TRUE, v |-> r.v]
        ELSE [ok |-> FALSE, v |-> JUndefined]

RECURSIVE JSONStringify(_)
RECURSIVE StringifyItems(_, _)
RECURSIVE StringifyMembers(_, _)

StringifyItems(items, i) ==
    IF i > Len(items) THEN <<>>
    ELSE (IF i > 1 THEN <<COMMA>> ELSE <<>>)
         \o JSONStringify(items[i]) \o StringifyItems(items, i + 1)

StringifyMembers(members, i) ==
    IF i > Len(members) THEN <<>>
    ELSE (IF i > 1 THEN <<COMMA>> ELSE <<>>)
         \o <<StrTok(members[i].key), COLON>> \o JSONStringify(members[i].val)
         \o StringifyMembers(members, i + 1)

\* JSON.stringify(v): the text without any whitespace.
JSONStringify(v) ==
    IF v.t = "string" THEN <<StrTok(v.s)>>
    ELSE IF v.t = "array" THEN <<LBRACK>> \o StringifyItems(v.items, 1) \o <<RBRACK>>
    ELSE <<LBRACE>> \o StringifyMembers(v.items, 1) \o <<RBRACE>>

\* A string[] of the page as a JavaScript value, and back.
ListToJS(list) == JArray([i \in 1..Len(list) |-> JString(list[i])])
JSToList(v) == [i \in 1..Len(v.items) |-> v.items[i].s]

\* --------------------------------------------------------- local storage

\* localStorage.getItem(key) is null exactly when the key is absent.
HasItem(store, key) == key \in DOMAIN store

\* localStorage.setItem(key, text).
setItem(store, key, text) ==
    [k \in DOMAIN store \cup {key} |-> IF k = key THEN text ELSE store[k]]

\* safeSetItem(key, text) of utils/fileHandler: the guarded localStorage.setItem.
safeSetItem(store, key, text) == setItem(store, key, text)

\* The key of an uploaded file's content.
FileKey(name) == "file:" \o name

Write(key, text) == [key |-> key, text |-> text]

\* The writes of one handler, applied in the order the handler makes them.
RECURSIVE ApplyWrites(_, _)
ApplyWrites(store, writes) ==
    IF writes = <<>> THEN store
    ELSE ApplyWrites(safeSetItem(store, Head(writes).key, Head(writes).text), Tail(writes))

WrittenKeys(writes) == [i \in 1..Len(writes) |-> writes[i].key]

\* ------------------------------------------------------------- the inputs

LAYER_NAMES == <<"roads", "buildings">>

\* Names of dropped files, and the layer names typed into the upload modal.
FileNames == {"a.json", "b.geojson"}

\* {"features":[{}]}
OneFeature ==
    <<LBRACE, StrTok("features"), COLON, LBRACK, LBRACE, RBRACE, RBRACK, RBRACE>>
\* { "features": [] }: a feature collection without features, spaced out.
NoFeature ==
    <<LBRACE, WS, StrTok("features"), COLON, WS, LBRACK, RBRACK, WS, RBRACE>>
\* {"features"   (a file cut short)
Truncated == <<LBRACE, StrTok("features")>>

FileContents == {OneFeature, NoFeature, Truncated}

\* What the remote-upload endpoint answers with on success: result.url.
ResultUrl == <<RawTok("https://bucket.s3.amazonaws.com/layer.geojson")>>

\* How a remote-upload request ends: a 2xx response, another response, a rejection.
ResponseOutcomes == {"ok", "notOk", "rejected"}

NULL == "null"
UploadErrorMessage == "Error saving file. Please try again."
MapErrorMessage == "Map error"
InitErrorMessage == "Error initializing map"

\* The values the baseLayer prop takes: two style URLs.
BaseLayers == {"styleA", "styleB"}
DefaultBaseLayer == "styleA"

\* map.current when it is null; the instances are numbered from 1.
NoMap == 0

\* An initMap call that has passed its check of mapContainer.current and awaits
\* getValidToken.  container tells whether mapContainer.current is still set.
InitCall(style) == [baseLayer |-> style, container |-> TRUE]

\* A maplibregl.Map: the style it was made with, whether it has fired load, and
\* whether remove() was called on it.
NewMap(style) == [style |-> style, loaded |-> FALSE, removed |-> FALSE]

\* How the getValidToken call that initMap awaits ends.
TokenOutcomes == {"resolved", "rejected"}

\* The ids the layer effect gives to the layer and the source of a file.
LayerId(fileName) == "geojson-layer-" \o fileName
SourceId(fileName) == "geojson-source-" \o fileName
\* A layer of the base style, and a click that hits no rendered feature.
BaseStyleLayerId == "background"
NoFeatureHit == "none"

\* The paint the layer effect gives a new layer, and what the style form may send.
DefaultPaint == [fillColor |-> "#FF0000", fillOpacity |-> "0.5", fillOutlineColor |-> "#00FF00"]
FormPaints == {DefaultPaint,
               [fillColor |-> "#0000FF", fillOpacity |-> "1", fillOutlineColor |-> "#000000"]}
\* The paint properties of a map without GeoJSON layers.
NoPaint == [f \in {} |-> DefaultPaint]

\* No request has been handed to transformRequest.
NoRequest == [url |-> <<>>]

\* What /api/connections-modal may answer with: lists of connection ids.
ConnectionData == {<<>>, <<"c1">>, <<"c1", "c2">>}
\* How a fetch of the connections ends: a 2xx response whose body is read, another
\* response, a rejected fetch, a body that response.json() rejects.
FetchOutcomes == {"ok", "notOk", "rejected", "badJson"}
ConnectionsErrorMessage == "Error fetching connections. Please try again later."
\* No fetch of the connections has settled.
NoFetch == [outcome |-> "none", data |-> <<>>]

\* --------------------------------------------------------- request URLs

\* A URL is the sequence of its characters.

\* String.prototype.startsWith
StartsWith(str, prefix) ==
    /\ Len(str) >= Len(prefix)
    /\ SubSeq(str, 1, Len(prefix)) = prefix

\* The first index from i on at which str holds one of chars; Len(str) + 1 if none.
RECURSIVE IndexOfAny(_, _, _)
IndexOfAny(str, chars, i) ==
    IF i > Len(str) THEN Len(str) + 1
    ELSE IF str[i] \in chars THEN i
    ELSE IndexOfAny(str, chars, i + 1)

\* The last index at which str holds c; 0 if none.
RECURSIVE LastIndexOf(_, _, _)
LastIndexOf(str, c, i) ==
    IF i = 0 THEN 0
    ELSE IF str[i] = c THEN i
    ELSE LastIndexOf(str, c, i - 1)

\* The parts of an absolute URL as a browser resolves them: the scheme before
\* "://", the authority up to the first "/", "?" or "#", in it the host after the
\* last "@" and before the ":" of a port.
Scheme(url) == SubSeq(url, 1, IndexOfAny(url, {":"}, 1) - 1)
Authority(url) ==
    LET from == IndexOfAny(url, {":"}, 1) + 3
    IN  SubSeq(url, from, IndexOfAny(url, {"/", "?", "#"}, from) - 1)
HostPort(url) ==
    LET authority == Authority(url)
    IN  SubSeq(authority, LastIndexOf(authority, "@", Len(authority)) + 1, Len(authority))
Host(url) ==
    LET hostPort == HostPort(url)
    IN  SubSeq(hostPort, 1, IndexOfAny(hostPort, {":"}, 1) - 1)
\* scheme://host:port, what window.location.origin holds for a page.
UrlOrigin(url) == Scheme(url) \o <<":", "/", "/">> \o HostPort(url)

\* "https://api.os.uk", the prefix transformRequest looks for.
TileProviderPrefix ==
    <<"h","t","t","p","s",":","/","/","a","p","i",".","o","s",".","u","k">>
Https ==
    <<"h","t","t","p","s">>
TileProviderHost ==
    <<"a","p","i",".","o","s",".","u","k">>

\* window.location.origin: the deployed page and the development server.
PageOrigin ==
    <<"h","t","t","p","s",":","/","/","g","r","i","d","w","a","l","k",".","i","o">>
LocalOrigin ==
    <<"h","t","t","p",":","/","/","l","o","c","a","l","h","o","s","t",":","3","0",
      "0","0">>
Origins == {PageOrigin, LocalOrigin}

\* The URLs the map asks transformRequest about.
\* https://api.os.uk/vts: the tile provider
TileUrl ==
    <<"h","t","t","p","s",":","/","/","a","p","i",".","o","s",".","u","k","/","v",
      "t","s">>
\* https://api.os.uk:443/vts: the tile provider, with its port spelled out
TilePortUrl ==
    <<"h","t","t","p","s",":","/","/","a","p","i",".","o","s",".","u","k",":","4",
      "4","3","/","v","t","s">>
\* https://api.os.uk: the tile provider, without a path
TileHostOnlyUrl ==
    <<"h","t","t","p","s",":","/","/","a","p","i",".","o","s",".","u","k">>
\* http://api.os.uk/vts: the tile provider's host without TLS
PlainTileUrl ==
    <<"h","t","t","p",":","/","/","a","p","i",".","o","s",".","u","k","/","v","t",
      "s">>
\* https://api.os.uk.evil.io/vts: a host whose name begins with the tile provider's
LongerHostUrl ==
    <<"h","t","t","p","s",":","/","/","a","p","i",".","o","s",".","u","k",".","e",
      "v","i","l",".","i","o","/","v","t","s">>
\* https://api.os.uk@evil.io/vts: the tile provider's name as the user of another host
UserInfoUrl ==
    <<"h","t","t","p","s",":","/","/","a","p","i",".","o","s",".","u","k","@","e",
      "v","i","l",".","i","o","/","v","t","s">>
\* https://tiles.example.org/vts: another host
OtherUrl ==
    <<"h","t","t","p","s",":","/","/","t","i","l","e","s",".","e","x","a","m","p",
      "l","e",".","o","r","g","/","v","t","s">>
\* https://gridwalk.io/api/tiles: the page's own origin
PageUrl ==
    <<"h","t","t","p","s",":","/","/","g","r","i","d","w","a","l","k",".","i","o",
      "/","a","p","i","/","t","i","l","e","s">>
\* http://localhost:3000/api/tiles: the page's own origin during development
LocalPageUrl ==
    <<"h","t","t","p",":","/","/","l","o","c","a","l","h","o","s","t",":","3","0",
      "0","0","/","a","p","i","/","t","i","l","e","s">>
\* https://gridwalk.io.evil.io/x: a host whose name begins with the page's
LongerOriginUrl ==
    <<"h","t","t","p","s",":","/","/","g","r","i","d","w","a","l","k",".","i","o",
      ".","e","v","i","l",".","i","o","/","x">>
RequestUrls ==
    {TileUrl, TilePortUrl, TileHostOnlyUrl, PlainTileUrl,
     LongerHostUrl, UserInfoUrl, OtherUrl, PageUrl,
     LocalPageUrl, LongerOriginUrl}

\* The access tokens a token retrieval may store in tokenDataRef.
AccessTokens == {"tokenA", "tokenB"}

\* What transformRequest returns: request parameters, or undefined, on which the
\* map sends the request as it is.
RequestParameters(url, authorization, contentType, credentials) ==
    [returns |-> "parameters", url |-> url, Authorization |-> authorization,
     ContentType |-> contentType, credentials |-> credentials]
Unmodified ==
    [returns |-> "undefined", url |-> <<>>, Authorization |-> NULL,
     ContentType |-> NULL, credentials |-> NULL]

\* `Bearer ${tokenDataRef.current?.access_token || ""}`
Bearer(token) == "Bearer " \o (IF token = NULL THEN "" ELSE token)

\* The transformRequest option that initMap gives to every map.
transformRequest(url, token, origin) ==
    IF StartsWith(url, TileProviderPrefix)
    THEN RequestParameters(url, Bearer(token), "application/json", NULL)
    ELSE IF StartsWith(url, origin)
    THEN RequestParameters(url, NULL, NULL, "same-origin")
    ELSE Unmodified

\* ------------------------------------------------------------- list helpers

Range(list) == {list[i] : i \in 1..Len(list)}

\* Array.prototype.includes
Includes(list, x) == \E i \in 1..Len(list) : list[i] = x

\* list.filter(item => item !== x)
RECURSIVE FilterOut(_, _)
FilterOut(list, x) ==
    IF list = <<>> THEN <<>>
    ELSE (IF Head(list) = x THEN <<>> ELSE <<Head(list)>>) \o FilterOut(Tail(list), x)

RemoveAt(list, i) == [j \in 1..(Len(list) - 1) |-> IF j < i THEN list[j] ELSE list[j + 1]]

\* ------------------------------------------------------------------ state

VARIABLES
    activeLayers,                \* page: useState<string[]>
    uploadedFiles,               \* page: useState<string[]>
    activeFiles,                 \* page: useState<string[]>
    isModalOpen,                 \* page: upload modal shown
    currentUploadedFileName,     \* page: name of the file awaiting confirmation
    currentUploadedFileContent,  \* page: its text
    uploadError,                 \* page: message shown by the sidebar, or NULL
    localStorage,                \* the browser's local storage: key -> text
    inflight,                    \* layer names of remote uploads awaiting a response
    mapLoaded,                   \* map: useState(false), set by the load event
    sources,                     \* map: the f with source 'geojson-source-f'
    layers,                      \* map: the f with layer 'geojson-layer-f'
    mapError,                    \* map: message shown over the map, or NULL
    last,                        \* history: the operation that ran last
    selectedLayer,               \* map: useState<string | null>, id of the layer being styled
    paint,                       \* map: the fill paint properties of each layer in layers
    mounted,                     \* map: the component is mounted (mapContainer.current is set)
    baseLayer,                   \* map: the baseLayer prop
    pendingInit,                 \* map: the initMap calls awaiting getValidToken
    instances,                   \* map: every maplibregl.Map created since the page load
    mapCurrent,                  \* map: map.current, an index into instances, or NoMap
    dragCounter,                 \* page: useRef(0)
    isDragging,                  \* page: useState(false), shows the drop overlay
    dragEnters,                  \* history: dragenter events since the last drop
    dragLeaves,                  \* history: dragleave events since the last drop
    tokenData,                   \* map: tokenDataRef.current?.access_token, or NULL
    request,                     \* history: the last request handed to transformRequest
    requestParameters,           \* history: what transformRequest returned for it
    isOpen,                      \* connections modal: the isOpen prop
    connections,                 \* connections modal: useState<Connection[]>([])
    isLoading,                   \* connections modal: useState(false)
    error,                       \* connections modal: useState<string | null>(null)
    fetches,                     \* connections modal: fetchConnections calls in flight
    settled                      \* history: how the fetch that settled last ended

pageVars == <<activeLayers, uploadedFiles, activeFiles, isModalOpen,
              currentUploadedFileName, currentUploadedFileContent, uploadError>>
lifeVars == <<mounted, baseLayer, pendingInit, instances, mapCurrent>>
mapVars == <<mapLoaded, sources, layers, mapError, selectedLayer, paint, lifeVars>>
dragVars == <<dragCounter, isDragging, dragEnters, dragLeaves>>
requestVars == <<tokenData, request, requestParameters>>
connVars == <<isOpen, connections, isLoading, error, fetches, settled>>
\* The state outside the page's lists, its upload modal and the map.
otherVars == <<dragVars, requestVars, connVars>>
vars == <<pageVars, localStorage, inflight, mapVars, last, otherVars>>

\* The history variable when no history is kept.
NotRecorded == [op |-> "", name |-> "", outcome |-> "", writes |-> <<>>, caught |-> {}]

\* The record of the operation that ran last: its name, the name it was about,
\* how its input turned out, the keys it wrote in order, and the files whose
\* processing the layer effect it triggered gave up on.  A behaviour that starts
\* without a history keeps none.
Last(op, name, outcome, writes, caught) ==
    IF last = NotRecorded THEN NotRecorded
    ELSE [op |-> op, name |-> name, outcome |-> outcome,
          writes |-> WrittenKeys(writes), caught |-> caught]

\* ---------------------------------------------------------- the layer effect

\* v.features when v is an object with an array under "features".
HasFeatures(v) ==
    /\ v.t = "object"
    /\ \E i \in 1..Len(v.items) : v.items[i].key = "features" /\ v.items[i].val.t = "array"

Features(v) ==
    LET i == CHOOSE j \in 1..Len(v.items) : v.items[j].key = "features" /\ v.items[j].val.t = "array"
    IN  v.items[i].val.items

\* transformGeoJsonData(parsedData) of utils/mapHandler re-projects the coordinates
\* of every feature: it throws on a value without a features array and otherwise
\* returns a collection of as many features.
transformGeoJsonData(v) == [ok |-> HasFeatures(v), v |-> v]

\* What the try block of the layer effect does with the stored text of one file up
\* to its addSource call: JSON.parse, transformGeoJsonData, and the logging of
\* transformedData.features[0].geometry, which throws when there is no first feature.
\* ok is FALSE when any of the three throws.
ProcessGeoJson(text) ==
    LET parsed == JSONParse(text) IN
    IF ~parsed.ok THEN FALSE
    ELSE LET transformed == transformGeoJsonData(parsed.v) IN
         IF ~transformed.ok THEN FALSE
         ELSE Len(Features(transformed.v)) > 0

\* The layers the effect removes: those of files that are no longer active.
LayersToRemove(af, lyr) == {f \in lyr : ~Includes(af, f)}

\* The active files the effect has stored data for and no source yet, once the
\* layers of the inactive files and their sources are removed.
FilesToAdd(af, store, src, lyr) ==
    {f \in Range(af) : f \notin (src \ LayersToRemove(af, lyr)) /\ HasItem(store, FileKey(f))}

\* The files whose source the effect adds and whose layer it then asks for.
AddLayerCalls(loaded, af, store, src, lyr) ==
    IF ~loaded THEN {}
    ELSE {f \in FilesToAdd(af, store, src, lyr) : ProcessGeoJson(store[FileKey(f)])}

\* One run of the effect that adds the uploaded GeoJSON files to the map.  throws
\* are the files whose addLayer call throws.  The result holds the sources and the
\* layers of the map afterwards and the files a catch block gave up on.
LayerEffect(loaded, af, store, src, lyr, throws) ==
    IF ~loaded THEN [sources |-> src, layers |-> lyr, caught |-> {}]
    ELSE LET gone == LayersToRemove(af, lyr)
             toAdd == FilesToAdd(af, store, src, lyr)
             processed == AddLayerCalls(loaded, af, store, src, lyr)
         IN  [sources |-> (src \ gone) \cup processed,
              layers |-> (lyr \ gone) \cup (processed \ throws),
              caught |-> (toAdd \ processed) \cup (processed \cap throws)]

\* Whether a run of the effect gets to work on a map: map.current is set, mapLoaded
\* is true, and the style of that map is loaded (on a map whose style is not loaded
\* getStyle() gives nothing to walk and addSource throws, so the run changes nothing).
EffectRuns(cur, loaded, inst) ==
    /\ cur # NoMap
    /\ loaded
    /\ inst[cur].loaded

\* The paint properties once the effect has left the map with the layers lyr: a
\* layer that stays keeps its paint, a new layer gets the paint of the addLayer call.
PaintAfter(pnt, lyr) ==
    [f \in lyr |-> IF f \in DOMAIN pnt THEN pnt[f] ELSE DefaultPaint]

\* ------------------------------------------------------------------- Init

\* The page as first rendered in a browser whose local storage is empty: the map
\* component has made its first initMap call, which awaits the token.
Start ==
    /\ activeLayers = <<"roads">>
    /\ uploadedFiles = <<>>
    /\ activeFiles = <<>>
    /\ isModalOpen = FALSE
    /\ currentUploadedFileName = ""
    /\ currentUploadedFileContent = <<>>
    /\ uploadError = NULL
    /\ localStorage = [k \in {} |-> <<>>]
    /\ inflight = <<>>
    /\ mapLoaded = FALSE
    /\ sources = {}
    /\ layers = {}
    /\ mapError = NULL
    /\ selectedLayer = NULL
    /\ paint = NoPaint
    /\ mounted = TRUE
    /\ baseLayer = DefaultBaseLayer
    /\ pendingInit = <<InitCall(DefaultBaseLayer)>>
    /\ instances = <<>>
    /\ mapCurrent = NoMap
    /\ dragCounter = 0
    /\ isDragging = FALSE
    /\ dragEnters = 0
    /\ dragLeaves = 0
    /\ tokenData = NULL
    /\ request = NoRequest
    /\ requestParameters = NoRequest
    /\ isOpen = FALSE
    /\ connections = <<>>
    /\ isLoading = FALSE
    /\ error = NULL
    /\ fetches = 0
    /\ settled = NoFetch

Init ==
    /\ Start
    /\ last = [op |-> "init", name |-> "", outcome |-> "", writes |-> <<>>, caught |-> {}]

\* The same start for the behaviours that keep no history.
InitUnrecorded ==
    /\ Start
    /\ last = NotRecorded

\* ------------------------------------------------------- predefined layers

\* handleCheckboxChange with isLayerActive always false: C10 fails on it.
handleCheckboxChangeAppend(layerList, layerName) ==
    Append(layerList, layerName)

\* Sidebar.handleCheckboxChange: the list handed to onLayerToggle.
handleCheckboxChange(layerList, layerName) ==
    IF Includes(layerList, layerName)
    THEN FilterOut(layerList, layerName)
    ELSE Append(layerList, layerName)

\* handleLayerToggle: what it stores.
LayerToggleWrites(updatedLayers) ==
    <<Write("activeLayers", JSONStringify(ListToJS(updatedLayers)))>>

\* A click on the checkbox of a predefined layer.
HandleCheckboxChange(layerName) ==
    LET updatedLayers == handleCheckboxChange(activeLayers, layerName)
        writes == LayerToggleWrites(updatedLayers)
    IN  /\ activeLayers' = updatedLayers
        /\ localStorage' = ApplyWrites(localStorage, writes)
        /\ last' = Last("handleCheckboxChange", layerName, "", writes, {})
        /\ UNCHANGED <<uploadedFiles, activeFiles, isModalOpen, currentUploadedFileName,
                       currentUploadedFileContent, uploadError, inflight, mapVars,
                       otherVars>>

\* ------------------------------------------------- the inline file handlers

\* handleFileUpload(fileName) of the first revision: what it stores.
FileUploadWrites(updatedFiles) ==
    <<Write("uploadedFiles", JSONStringify(ListToJS(updatedFiles)))>>

HandleFileUpload(fileName) ==
    LET updatedFiles == Append(uploadedFiles, fileName)
        writes == FileUploadWrites(updatedFiles)
    IN  /\ Len(uploadedFiles) < MaxFiles
        /\ uploadedFiles' = updatedFiles
        /\ localStorage' = ApplyWrites(localStorage, writes)
        /\ last' = Last("handleFileUpload", fileName, "", writes, {})
        /\ UNCHANGED <<activeLayers, activeFiles, isModalOpen, currentUploadedFileName,
                       currentUploadedFileContent, uploadError, inflight, mapVars,
                       otherVars>>

\* handleFileDelete without its second setItem: C1 fails on it.
FileDeleteWritesListOnly(fileName, updatedFiles, updatedActiveFiles) ==
    <<Write("uploadedFiles", JSONStringify(ListToJS(updatedFiles)))>>

\* handleFileDelete(fileName): what it stores.
FileDeleteWrites(fileName, updatedFiles, updatedActiveFiles) ==
    <<Write("uploadedFiles", JSONStringify(ListToJS(updatedFiles))),
      Write("activeFiles", JSONStringify(ListToJS(updatedActiveFiles)))>>

\* handleFileDelete without its filter of activeFiles: C16 fails on it.
HandleFileDeleteKeepsActive(fileName) ==
    LET updatedFiles == FilterOut(uploadedFiles, fileName)
        writes == FileDeleteWrites(fileName, updatedFiles, activeFiles)
    IN  /\ Includes(uploadedFiles, fileName)
        /\ uploadedFiles' = updatedFiles
        /\ localStorage' = ApplyWrites(localStorage, writes)
        /\ last' = Last("handleFileDelete", fileName, "", writes, {})
        /\ UNCHANGED <<activeLayers, activeFiles, isModalOpen, currentUploadedFileName,
                       currentUploadedFileContent, uploadError, inflight, mapVars,
                       otherVars>>

\* The delete button of an uploaded file.  activeFiles becomes a new array, so the
\* layer effect runs.
HandleFileDelete(fileName) ==
    LET updatedFiles == FilterOut(uploadedFiles, fileName)
        updatedActiveFiles == FilterOut(activeFiles, fileName)
        writes == FileDeleteWrites(fileName, updatedFiles, updatedActiveFiles)
    IN  /\ Includes(uploadedFiles, fileName)
        /\ uploadedFiles' = updatedFiles
        /\ activeFiles' = updatedActiveFiles
        /\ localStorage' = ApplyWrites(localStorage, writes)
        /\ \E throws \in SUBSET AddLayerCalls(EffectRuns(mapCurrent, mapLoaded, instances),
                                              updatedActiveFiles, localStorage', sources, layers) :
             LET e == LayerEffect(EffectRuns(mapCurrent, mapLoaded, instances),
                                  updatedActiveFiles, localStorage', sources, layers, throws)
             IN  /\ sources' = e.sources
                 /\ layers' = e.layers
                 /\ paint' = PaintAfter(paint, e.layers)
                 /\ last' = Last("handleFileDelete", fileName, "", writes, e.caught)
        /\ UNCHANGED <<activeLayers, isModalOpen, currentUploadedFileName,
                       currentUploadedFileContent, uploadError, inflight, mapLoaded,
                       mapError, selectedLayer, lifeVars, otherVars>>

\* handleFileToggle(fileName, isActive): the new activeFiles.
handleFileToggle(af, fileName, isActive) ==
    IF isActive THEN Append(af, fileName) ELSE FilterOut(af, fileName)

FileToggleWrites(updatedActiveFiles) ==
    <<Write("activeFiles", JSONStringify(ListToJS(updatedActiveFiles)))>>

\* The checkbox of an uploaded file; isActive is its new checked state, the
\* opposite of whether the file is active now.
HandleFileToggle(fileName) ==
    LET isActive == ~Includes(activeFiles, fileName)
        updatedActiveFiles == handleFileToggle(activeFiles, fileName, isActive)
        writes == FileToggleWrites(updatedActiveFiles)
    IN  /\ Includes(uploadedFiles, fileName)
        /\ activeFiles' = updatedActiveFiles
        /\ localStorage' = ApplyWrites(localStorage, writes)
        /\ \E throws \in SUBSET AddLayerCalls(EffectRuns(mapCurrent, mapLoaded, instances),
                                              updatedActiveFiles, localStorage', sources, layers) :
             LET e == LayerEffect(EffectRuns(mapCurrent, mapLoaded, instances),
                                  updatedActiveFiles, localStorage', sources, layers, throws)
             IN  /\ sources' = e.sources
                 /\ layers' = e.layers
                 /\ paint' = PaintAfter(paint, e.layers)
                 /\ last' = Last("handleFileToggle", fileName, "", writes, e.caught)
        /\ UNCHANGED <<activeLayers, uploadedFiles, isModalOpen, currentUploadedFileName,
                       currentUploadedFileContent, uploadError, inflight, mapLoaded,
                       mapError, selectedLayer, lifeVars, otherVars>>

\* What reader.onload of the first revision's handleDrop stores for a parsed file.
DropWrites(prev, fileName, jsonData) ==
    <<Write(FileKey(fileName), JSONStringify(jsonData)),
      Write("uploadedFiles", JSONStringify(ListToJS(Append(prev, fileName))))>>

\* reader.onload of the first revision's handleDrop, for one dropped .json or
\* .geojson file: a content that does not parse is logged to the console.
ReaderOnload(fileName, content) ==
    LET parsed == JSONParse(content)
        writes == IF parsed.ok THEN DropWrites(uploadedFiles, fileName, parsed.v) ELSE <<>>
    IN  /\ parsed.ok => Len(uploadedFiles) < MaxFiles
        /\ uploadedFiles' = IF parsed.ok THEN Append(uploadedFiles, fileName) ELSE uploadedFiles
        /\ localStorage' = ApplyWrites(localStorage, writes)
        /\ last' = Last("readerOnload", fileName,
                        IF parsed.ok THEN "ok" ELSE "parseError", writes, {})
        /\ UNCHANGED <<activeLayers, activeFiles, isModalOpen, currentUploadedFileName,
                       currentUploadedFileContent, uploadError, inflight, mapVars,
                       otherVars>>

\* ------------------------------------------------- the modal-driven upload

\* ------------------------------------------------------------ drag and drop

\* handleDragEnter: the counter and the overlay flag after it.  hasItems tells
\* whether e.dataTransfer.items holds an item.
handleDragEnter(counter, dragging, hasItems) ==
    [dragCounter |-> counter + 1, isDragging |-> (hasItems \/ dragging)]

\* handleDragLeave without its setIsDragging(false): C11 fails on it.
handleDragLeaveCounterOnly(counter, dragging) ==
    [dragCounter |-> counter - 1, isDragging |-> dragging]

\* handleDragLeave: the counter and the overlay flag after it.
handleDragLeave(counter, dragging) ==
    [dragCounter |-> counter - 1,
     isDragging |-> IF counter - 1 = 0 THEN FALSE ELSE dragging]

\* A dragenter event on the page or on an element inside it.
HandleDragEnter(hasItems) ==
    LET after == handleDragEnter(dragCounter, isDragging, hasItems)
    IN  /\ dragEnters < MaxDrag
        /\ dragCounter' = after.dragCounter
        /\ isDragging' = after.isDragging
        /\ dragEnters' = dragEnters + 1
        /\ last' = Last("handleDragEnter", "", "", <<>>, {})
        /\ UNCHANGED <<pageVars, localStorage, inflight, mapVars, dragLeaves,
                       requestVars, connVars>>

\* A dragleave event: the browser sends one for an element the drag has entered.
HandleDragLeave ==
    LET after == handleDragLeave(dragCounter, isDragging)
    IN  /\ dragLeaves < dragEnters
        /\ dragCounter' = after.dragCounter
        /\ isDragging' = after.isDragging
        /\ dragLeaves' = dragLeaves + 1
        /\ last' = Last("handleDragLeave", "", "", <<>>, {})
        /\ UNCHANGED <<pageVars, localStorage, inflight, mapVars, dragEnters,
                       requestVars, connVars>>

\* Both revisions of handleDrop begin alike: setIsDragging(false) and
\* dragCounter.current = 0.
DropEndsDrag ==
    /\ isDragging' = FALSE
    /\ dragCounter' = 0
    /\ dragEnters' = 0
    /\ dragLeaves' = 0

\* handleDrop of the first revision: the drag ends and a reader is started for
\* every .json or .geojson file; each reader.onload comes later, as ReaderOnload.
HandleDropReaders ==
    /\ DropEndsDrag
    /\ last' = Last("handleDropReaders", "", "", <<>>, {})
    /\ UNCHANGED <<pageVars, localStorage, inflight, mapVars, requestVars, connVars>>

\* A drop that commits the file as the first revision's reader.onload does: C12
\* fails on it.
HandleDropCommits(fileName, content) == ReaderOnload(fileName, content)

\* handleDrop of the second revision: the first dropped file goes to handleFileUpload
\* of utils/fileHandler, which reads it, keeps its name and text as the pending
\* upload and opens the modal.
HandleDrop(fileName, content) ==
    /\ currentUploadedFileName' = fileName
    /\ currentUploadedFileContent' = content
    /\ isModalOpen' = TRUE
    /\ DropEndsDrag
    /\ last' = Last("handleDrop", fileName, "", <<>>, {})
    /\ UNCHANGED <<activeLayers, uploadedFiles, activeFiles, uploadError, localStorage,
                   inflight, mapVars, requestVars, connVars>>

\* The files a drop event may carry: none, one or two.
DroppedFile(name, content) == [name |-> name, content |-> content]
DroppedFileLists ==
    LET one == {DroppedFile(n, c) : n \in FileNames, c \in {NoFeature, Truncated}}
    IN  {<<>>} \cup {<<f>> : f \in one}
               \cup {<<pair[1], pair[2]>> : pair \in {q \in one \X one : q[1].name # q[2].name}}

\* A drop event on the second revision's page: without a file only the drag ends,
\* otherwise files[0] alone is handed on.
HandleDropEvent(files) ==
    IF Len(files) > 0
    THEN HandleDrop(files[1].name, files[1].content)
    ELSE /\ DropEndsDrag
         /\ last' = Last("handleDrop", "", "noFile", <<>>, {})
         /\ UNCHANGED <<pageVars, localStorage, inflight, mapVars, requestVars, connVars>>

\* The modal's Cancel button: onClose.
CloseModal ==
    /\ isModalOpen
    /\ isModalOpen' = FALSE
    /\ last' = Last("closeModal", "", "", <<>>, {})
    /\ UNCHANGED <<activeLayers, uploadedFiles, activeFiles, currentUploadedFileName,
                   currentUploadedFileContent, uploadError, localStorage, inflight,
                   mapVars, otherVars>>

\* How far the synchronous part of handleLayerNameConfirm gets: JSON.parse throws,
\* the request of a remote upload is sent and awaited, or the local upload is done.
ConfirmOutcome(content, isRemote) ==
    IF ~JSONParse(content).ok THEN "parseError"
    ELSE IF isRemote THEN "awaiting"
    ELSE "ok"

\* The local branch with the list updated before the file is stored: C4 fails on it.
LocalUploadWritesListFirst(prev, layerName, jsonData) ==
    <<Write("uploadedFiles", JSONStringify(ListToJS(Append(prev, layerName)))),
      Write(FileKey(layerName), JSONStringify(jsonData))>>

\* The local branch of handleLayerNameConfirm and the update of the list after it.
LocalUploadWrites(prev, layerName, jsonData) ==
    <<Write(FileKey(layerName), JSONStringify(jsonData)),
      Write("uploadedFiles", JSONStringify(ListToJS(Append(prev, layerName))))>>

\* The end of handleLayerNameConfirm, reached on every path: the modal is closed
\* and the pending upload reset.
ConfirmEpilogue ==
    /\ isModalOpen' = FALSE
    /\ currentUploadedFileName' = ""
    /\ currentUploadedFileContent' = <<>>

\* The modal's Confirm button: handleLayerNameConfirm(layerName, isRemote) up to its
\* first await, or to its end when it does not reach one.
HandleLayerNameConfirm(layerName, isRemote) ==
    LET outcome == ConfirmOutcome(currentUploadedFileContent, isRemote)
        jsonData == JSONParse(currentUploadedFileContent).v
        writes == IF outcome = "ok"
                  THEN LocalUploadWrites(uploadedFiles, layerName, jsonData)
                  ELSE <<>>
    IN  /\ isModalOpen
        /\ outcome = "ok" => Len(uploadedFiles) < MaxFiles
        /\ outcome = "awaiting" => Len(inflight) < MaxInFlight
        /\ last' = Last("handleLayerNameConfirm", layerName, outcome, writes, {})
        /\ localStorage' = ApplyWrites(localStorage, writes)
        /\ IF outcome = "awaiting"
           THEN /\ inflight' = Append(inflight, layerName)
                /\ UNCHANGED <<uploadedFiles, uploadError, isModalOpen,
                               currentUploadedFileName, currentUploadedFileContent>>
           ELSE /\ ConfirmEpilogue
                /\ uploadedFiles' = IF outcome = "ok"
                                    THEN Append(uploadedFiles, layerName)
                                    ELSE uploadedFiles
                /\ uploadError' = IF outcome = "ok" THEN uploadError ELSE UploadErrorMessage
                /\ UNCHANGED inflight
        /\ UNCHANGED <<activeLayers, activeFiles, mapVars, otherVars>>

\* The awaited part without its check of response.ok: C5 fails on it.
ResponseThrowsOnReject(outcome) == outcome = "rejected"

\* Whether the awaited part of a remote upload throws: fetch rejects, or the
\* response is not OK and the handler throws "Remote upload failed".
ResponseThrows(outcome) == outcome # "ok"

\* The remote branch of handleLayerNameConfirm after a 2xx response, and the update
\* of the list after it.
RemoteUploadWrites(prev, layerName, url) ==
    <<Write(FileKey(layerName), url),
      Write("uploadedFiles", JSONStringify(ListToJS(Append(prev, layerName))))>>

\* The rest of handleLayerNameConfirm(layerName, true) once the request it awaits
\* has settled.
RemoteUploadResponse(i, outcome) ==
    LET layerName == inflight[i]
        failed == ResponseThrows(outcome)
        writes == IF failed THEN <<>>
                  ELSE RemoteUploadWrites(uploadedFiles, layerName, ResultUrl)
    IN  /\ ~failed => Len(uploadedFiles) < MaxFiles
        /\ inflight' = RemoveAt(inflight, i)
        /\ localStorage' = ApplyWrites(localStorage, writes)
        /\ uploadedFiles' = IF failed THEN uploadedFiles ELSE Append(uploadedFiles, layerName)
        /\ uploadError' = IF failed THEN UploadErrorMessage ELSE uploadError
        /\ ConfirmEpilogue
        /\ last' = Last("uploadResponse", layerName, outcome, writes, {})
        /\ UNCHANGED <<activeLayers, activeFiles, mapVars, otherVars>>

\* ---------------------------------------------------------------- page load

\* The mount effect taking a stored empty list for a missing one: C2 fails on it.
LoadListNonEmpty(store, key, default) ==
    IF HasItem(store, key) /\ JSToList(JSONParse(store[key]).v) # <<>>
    THEN JSToList(JSONParse(store[key]).v)
    ELSE default

\* A list of the page as the mount effect reads it from local storage.
LoadList(store, key, default) ==
    IF HasItem(store, key) /\ store[key] # <<>>
    THEN JSToList(JSONParse(store[key]).v)
    ELSE default

\* The page is loaded again: every component state starts over, the requests and
\* the map instances of the page before are dropped with it, the map component
\* makes its first initMap call, and the mount effect reads the three lists.
Reload ==
    /\ activeLayers' = LoadList(localStorage, "activeLayers", <<"roads">>)
    /\ uploadedFiles' = LoadList(localStorage, "uploadedFiles", <<>>)
    /\ activeFiles' = LoadList(localStorage, "activeFiles", <<>>)
    /\ isModalOpen' = FALSE
    /\ currentUploadedFileName' = ""
    /\ currentUploadedFileContent' = <<>>
    /\ uploadError' = NULL
    /\ inflight' = <<>>
    /\ mapLoaded' = FALSE
    /\ sources' = {}
    /\ layers' = {}
    /\ mapError' = NULL
    /\ selectedLayer' = NULL
    /\ paint' = NoPaint
    /\ mounted' = TRUE
    /\ baseLayer' = DefaultBaseLayer
    /\ pendingInit' = <<InitCall(DefaultBaseLayer)>>
    /\ instances' = <<>>
    /\ mapCurrent' = NoMap
    /\ dragCounter' = 0
    /\ isDragging' = FALSE
    /\ dragEnters' = 0
    /\ dragLeaves' = 0
    /\ tokenData' = NULL
    /\ last' = Last("reload", "", "", <<>>, {})
    /\ UNCHANGED <<localStorage, request, requestParameters, connVars>>

\* ------------------------------------------------------------------ the map

\* What the cleanup of the init effect does to the instances: map.current.remove().
RemoveCurrent(inst, cur) ==
    IF cur = NoMap THEN inst ELSE [inst EXCEPT ![cur].removed = TRUE]

\* initMap after its await.  getValidToken has rejected, or new maplibregl.Map
\* throws because mapContainer.current is null: the catch block reports it.
\* Otherwise the new instance is put in map.current, over whatever is there.
InitMapResume(i, outcome) ==
    LET call == pendingInit[i]
        created == outcome = "resolved" /\ call.container
    IN  /\ pendingInit' = RemoveAt(pendingInit, i)
        /\ IF created
           THEN /\ instances' = Append(instances, NewMap(call.baseLayer))
                /\ mapCurrent' = Len(instances) + 1
                /\ sources' = {}
                /\ layers' = {}
                /\ paint' = NoPaint
                /\ UNCHANGED mapError
           ELSE /\ mapError' = IF mounted THEN InitErrorMessage ELSE mapError
                /\ UNCHANGED <<instances, mapCurrent, sources, layers, paint>>
        /\ last' = Last("initMap", call.baseLayer, IF created THEN "created" ELSE "failed", <<>>, {})
        /\ UNCHANGED <<pageVars, localStorage, inflight, mapLoaded, selectedLayer, mounted,
                       baseLayer, otherVars>>

\* The baseLayer prop changes: the cleanup of the init effect removes the instance
\* in map.current, and the effect calls initMap again.  Neither activeFiles nor
\* mapLoaded changes, so the layer effect does not run.
BaseLayerChange(style) ==
    /\ mounted
    /\ style # baseLayer
    /\ Len(instances) + Len(pendingInit) < MaxMaps
    /\ baseLayer' = style
    /\ instances' = RemoveCurrent(instances, mapCurrent)
    /\ mapCurrent' = NoMap
    /\ sources' = {}
    /\ layers' = {}
    /\ paint' = NoPaint
    /\ pendingInit' = Append(pendingInit, InitCall(style))
    /\ last' = Last("baseLayerChange", style, "", <<>>, {})
    /\ UNCHANGED <<pageVars, localStorage, inflight, mapLoaded, mapError, selectedLayer,
                   mounted, otherVars>>

\* The map component unmounts: the cleanup runs, mapContainer.current becomes null
\* for the initMap calls still waiting, and the state of the component is gone.
Unmount ==
    /\ mounted
    /\ mounted' = FALSE
    /\ instances' = RemoveCurrent(instances, mapCurrent)
    /\ mapCurrent' = NoMap
    /\ sources' = {}
    /\ layers' = {}
    /\ paint' = NoPaint
    /\ pendingInit' = [k \in 1..Len(pendingInit) |-> [pendingInit[k] EXCEPT !.container = FALSE]]
    /\ mapLoaded' = FALSE
    /\ mapError' = NULL
    /\ selectedLayer' = NULL
    /\ last' = Last("unmount", "", "", <<>>, {})
    /\ UNCHANGED <<pageVars, localStorage, inflight, baseLayer, otherVars>>

\* The load event of an instance: setMapLoaded(true).  The layer effect runs when
\* this changes mapLoaded, on the instance that map.current holds by then.
MapLoad(i) ==
    /\ ~instances[i].loaded
    /\ ~instances[i].removed
    /\ instances' = [instances EXCEPT ![i].loaded = TRUE]
    /\ mapLoaded' = (mounted \/ mapLoaded)
    /\ LET runs == mounted /\ ~mapLoaded /\ EffectRuns(mapCurrent, TRUE, instances')
       IN  \E throws \in SUBSET AddLayerCalls(runs, activeFiles, localStorage, sources, layers) :
             LET e == LayerEffect(runs, activeFiles, localStorage, sources, layers, throws)
             IN  /\ sources' = e.sources
                 /\ layers' = e.layers
                 /\ paint' = PaintAfter(paint, e.layers)
                 /\ last' = Last("mapLoad", "", "", <<>>, e.caught)
    /\ UNCHANGED <<pageVars, localStorage, inflight, mapError, selectedLayer, mounted,
                   baseLayer, pendingInit, mapCurrent, otherVars>>

\* The error event of an instance: handleError(setMapError, e.error, "Map error")
\* of utils/mapHandler shows the message.
MapErrorEvent ==
    /\ mounted
    /\ \E i \in 1..Len(instances) : ~instances[i].removed
    /\ mapError' = MapErrorMessage
    /\ last' = Last("mapError", "", "", <<>>, {})
    /\ UNCHANGED <<pageVars, localStorage, inflight, mapLoaded, sources, layers,
                   selectedLayer, paint, lifeVars, otherVars>>

\* clickedLayerId.startsWith("geojson-layer-"): the id is the one the layer effect
\* gives to the layer of some file.
IsGeoJsonLayerId(id) == \E f \in FileNames : id = LayerId(f)
FileOf(id) == CHOOSE f \in FileNames : id = LayerId(f)

\* What a click may hit first: nothing, a layer of the base style, or one of the
\* GeoJSON layers on the map.
ClickTargets(lyr) == {NoFeatureHit, BaseStyleLayerId} \cup {LayerId(f) : f \in lyr}

\* The click listener of the map: top is the id of the layer of features[0], or
\* NoFeatureHit when queryRenderedFeatures returns no feature.
MapClick(top) ==
    /\ mounted
    /\ mapCurrent # NoMap
    /\ top \in ClickTargets(layers)
    /\ selectedLayer' = IF top # NoFeatureHit /\ IsGeoJsonLayerId(top) THEN top ELSE selectedLayer
    /\ last' = Last("mapClick", top, "", <<>>, {})
    /\ UNCHANGED <<pageVars, localStorage, inflight, mapLoaded, sources, layers, mapError,
                   paint, lifeVars, otherVars>>

\* How a save of the style form goes: there is no map; the style of the map is
\* not loaded and setPaintProperty throws; the layer is on the map; or it is not
\* and the map fires its error event.
SaveOutcome(cur, inst, lyr, selected) ==
    IF cur = NoMap THEN "noMap"
    ELSE IF ~inst[cur].loaded THEN "notLoaded"
    ELSE IF IsGeoJsonLayerId(selected) /\ FileOf(selected) \in lyr THEN "styled"
    ELSE "noLayer"

\* updateLayerStyle, called by the Save button of the style form, which is shown
\* while selectedLayer is set.
UpdateLayerStyle(formPaint) ==
    LET outcome == SaveOutcome(mapCurrent, instances, layers, selectedLayer)
    IN  /\ mounted
        /\ selectedLayer # NULL
        /\ paint' = IF outcome = "styled"
                    THEN [paint EXCEPT ![FileOf(selectedLayer)] = formPaint]
                    ELSE paint
        /\ mapError' = IF outcome = "noLayer" THEN MapErrorMessage ELSE mapError
        /\ selectedLayer' = IF outcome \in {"styled", "noLayer"} THEN NULL ELSE selectedLayer
        /\ last' = Last("updateLayerStyle", selectedLayer, outcome, <<>>, {})
        /\ UNCHANGED <<pageVars, localStorage, inflight, mapLoaded, sources, layers,
                       lifeVars, otherVars>>

\* getValidToken of utils/mapHandler has fetched a token and stored it in
\* tokenDataRef.
TokenRefresh(token) ==
    /\ mounted
    /\ token # tokenData
    /\ tokenData' = token
    /\ last' = Last("tokenRefresh", "", "", <<>>, {})
    /\ UNCHANGED <<pageVars, localStorage, inflight, mapVars, dragVars, request,
                   requestParameters, connVars>>

\* A map that has not been removed asks transformRequest about a URL, on a page
\* served from origin.
TransformRequest(url, origin) ==
    /\ \E i \in 1..Len(instances) : ~instances[i].removed
    /\ request' = [url |-> url, origin |-> origin, token |-> tokenData]
    /\ requestParameters' = transformRequest(url, tokenData, origin)
    /\ last' = Last("transformRequest", "", "", <<>>, {})
    /\ UNCHANGED <<pageVars, localStorage, inflight, mapVars, dragVars, tokenData,
                   connVars>>

\* ------------------------------------------------------ the connections modal

\* The isOpen prop becomes true: the effect calls fetchConnections, which runs up
\* to its await.
OpenConnections ==
    /\ ~isOpen
    /\ fetches < MaxFetches
    /\ isOpen' = TRUE
    /\ isLoading' = TRUE
    /\ error' = NULL
    /\ fetches' = fetches + 1
    /\ last' = Last("openConnections", "", "", <<>>, {})
    /\ UNCHANGED <<pageVars, localStorage, inflight, mapVars, dragVars, requestVars,
                   connections, settled>>

\* The isOpen prop becomes false: the component renders nothing and keeps its state.
CloseConnections ==
    /\ isOpen
    /\ isOpen' = FALSE
    /\ last' = Last("closeConnections", "", "", <<>>, {})
    /\ UNCHANGED <<pageVars, localStorage, inflight, mapVars, dragVars, requestVars,
                   connections, isLoading, error, fetches, settled>>

\* The rest of a fetchConnections call once its request has settled: the try, the
\* catch and the finally block.
ConnectionsResponse(outcome, data) ==
    /\ fetches > 0
    /\ fetches' = fetches - 1
    /\ connections' = IF outcome = "ok" THEN data ELSE connections
    /\ error' = IF outcome = "ok" THEN error ELSE ConnectionsErrorMessage
    /\ isLoading' = FALSE
    /\ settled' = [outcome |-> outcome, data |-> IF outcome = "ok" THEN data ELSE <<>>]
    /\ last' = Last("connectionsResponse", "", outcome, <<>>, {})
    /\ UNCHANGED <<pageVars, localStorage, inflight, mapVars, dragVars, requestVars, isOpen>>

\* ------------------------------------------------------------------- Next

Next ==
    \/ \E layerName \in Range(LAYER_NAMES) : HandleCheckboxChange(layerName)
    \/ \E fileName \in FileNames : HandleFileUpload(fileName)
    \/ \E fileName \in FileNames : HandleFileDelete(fileName)
    \/ \E fileName \in FileNames : HandleFileToggle(fileName)
    \/ \E fileName \in FileNames, content \in FileContents : ReaderOnload(fileName, content)
    \/ \E fileName \in FileNames, content \in FileContents : HandleDrop(fileName, content)
    \/ CloseModal
    \/ \E layerName \in FileNames, isRemote \in BOOLEAN :
         HandleLayerNameConfirm(layerName, isRemote)
    \/ \E i \in 1..Len(inflight), outcome \in ResponseOutcomes : RemoteUploadResponse(i, outcome)
    \/ Reload
    \/ \E i \in 1..Len(pendingInit), outcome \in TokenOutcomes : InitMapResume(i, outcome)
    \/ \E i \in 1..Len(instances) : MapLoad(i)
    \/ MapErrorEvent
    \/ \E hasItems \in BOOLEAN : HandleDragEnter(hasItems)
    \/ HandleDragLeave
    \/ HandleDropReaders
    \/ \E files \in DroppedFileLists : HandleDropEvent(files)
    \/ \E token \in AccessTokens : TokenRefresh(token)
    \/ \E url \in RequestUrls, origin \in Origins : TransformRequest(url, origin)
    \/ OpenConnections
    \/ CloseConnections
    \/ \E outcome \in FetchOutcomes, data \in ConnectionData : ConnectionsResponse(outcome, data)
    \/ \E top \in ClickTargets(FileNames) : MapClick(top)
    \/ \E formPaint \in FormPaints : UpdateLayerStyle(formPaint)
    \/ \E style \in BaseLayers : BaseLayerChange(style)
    \/ Unmount

Spec == Init /\ [][Next]_vars

\* The behaviours of Spec in which part of the events never happen.  Each of the
\* specifications below is Spec with some disjuncts of Next left out.

\* A text that parses and a text that does not: all that the lists depend on.
ListContents == {NoFeature, Truncated}

\* Every operation on the three lists and their stored copies, before the map
\* has loaded, without a history.
NextLists ==
    \/ \E layerName \in Range(LAYER_NAMES) : HandleCheckboxChange(layerName)
    \/ \E fileName \in FileNames : HandleFileUpload(fileName)
    \/ \E fileName \in FileNames : HandleFileDelete(fileName)
    \/ \E fileName \in FileNames : HandleFileToggle(fileName)
    \/ \E fileName \in FileNames, content \in ListContents : ReaderOnload(fileName, content)
    \/ \E fileName \in FileNames, content \in ListContents : HandleDrop(fileName, content)
    \/ CloseModal
    \/ \E layerName \in FileNames, isRemote \in BOOLEAN :
         HandleLayerNameConfirm(layerName, isRemote)
    \/ \E i \in 1..Len(inflight), outcome \in ResponseOutcomes : RemoteUploadResponse(i, outcome)
    \/ Reload

SpecLists == InitUnrecorded /\ [][NextLists]_vars

\* The uploads of both revisions and the file controls, with the predefined layers
\* left alone and before the map has loaded.
NextFiles ==
    \/ \E fileName \in FileNames : HandleFileDelete(fileName)
    \/ \E fileName \in FileNames : HandleFileToggle(fileName)
    \/ \E fileName \in FileNames, content \in FileContents : ReaderOnload(fileName, content)
    \/ \E fileName \in FileNames, content \in FileContents : HandleDrop(fileName, content)
    \/ CloseModal
    \/ \E layerName \in FileNames, isRemote \in BOOLEAN :
         HandleLayerNameConfirm(layerName, isRemote)
    \/ \E i \in 1..Len(inflight), outcome \in ResponseOutcomes : RemoteUploadResponse(i, outcome)

SpecFiles == Init /\ [][NextFiles]_vars

\* The sidebar's controls, local uploads and page loads.
NextReload ==
    \/ \E layerName \in Range(LAYER_NAMES) : HandleCheckboxChange(layerName)
    \/ \E fileName \in FileNames : HandleFileUpload(fileName)
    \/ \E fileName \in FileNames : HandleFileDelete(fileName)
    \/ \E fileName \in FileNames : HandleFileToggle(fileName)
    \/ \E fileName \in FileNames, content \in ListContents : ReaderOnload(fileName, content)
    \/ \E fileName \in FileNames, content \in ListContents : HandleDrop(fileName, content)
    \/ \E layerName \in FileNames : HandleLayerNameConfirm(layerName, FALSE)
    \/ Reload

SpecReload == Init /\ [][NextReload]_vars

\* The modal-driven uploads, the checkboxes of the uploaded files and the map:
\* every name in uploadedFiles was committed by an upload confirmation.
NextMap ==
    \/ \E fileName \in FileNames : HandleFileToggle(fileName)
    \/ \E fileName \in FileNames, content \in FileContents : HandleDrop(fileName, content)
    \/ \E layerName \in FileNames, isRemote \in BOOLEAN :
         HandleLayerNameConfirm(layerName, isRemote)
    \/ \E i \in 1..Len(inflight), outcome \in ResponseOutcomes : RemoteUploadResponse(i, outcome)
    \/ \E i \in 1..Len(pendingInit), outcome \in TokenOutcomes : InitMapResume(i, outcome)
    \/ \E i \in 1..Len(instances) : MapLoad(i)
    \/ MapErrorEvent

SpecMap == Init /\ [][NextMap]_vars

\* The drag events of both revisions with the second revision's upload modal.
NextDrag ==
    \/ \E hasItems \in BOOLEAN : HandleDragEnter(hasItems)
    \/ HandleDragLeave
    \/ HandleDropReaders
    \/ \E files \in DroppedFileLists : HandleDropEvent(files)
    \/ CloseModal
    \/ \E layerName \in FileNames : HandleLayerNameConfirm(layerName, FALSE)

SpecDrag == Init /\ [][NextDrag]_vars

\* The second revision's page: drops, the upload modal, the remote uploads, the
\* file controls and the checkbox of one predefined layer.
NextModal ==
    \/ HandleCheckboxChange("buildings")
    \/ \E fileName \in FileNames : HandleFileDelete(fileName)
    \/ \E fileName \in FileNames : HandleFileToggle(fileName)
    \/ \E files \in DroppedFileLists : HandleDropEvent(files)
    \/ CloseModal
    \/ \E layerName \in FileNames, isRemote \in BOOLEAN :
         HandleLayerNameConfirm(layerName, isRemote)
    \/ \E i \in 1..Len(inflight), outcome \in ResponseOutcomes : RemoteUploadResponse(i, outcome)

SpecModal == Init /\ [][NextModal]_vars

\* The requests of a map: the first initMap call, the token retrievals and the
\* URLs handed to transformRequest.
NextRequests ==
    \/ \E i \in 1..Len(pendingInit), outcome \in TokenOutcomes : InitMapResume(i, outcome)
    \/ \E token \in AccessTokens : TokenRefresh(token)
    \/ \E url \in RequestUrls, origin \in Origins : TransformRequest(url, origin)

SpecRequests == Init /\ [][NextRequests]_vars

\* The connections modal on its own.
NextConnections ==
    \/ OpenConnections
    \/ CloseConnections
    \/ \E outcome \in FetchOutcomes, data \in ConnectionData : ConnectionsResponse(outcome, data)

SpecConnections == Init /\ [][NextConnections]_vars

\* The style form: files with a feature are uploaded and switched on and off, the
\* map is made and loads, its layers are clicked and styled.
NextStyle ==
    \/ \E fileName \in FileNames : ReaderOnload(fileName, OneFeature)
    \/ \E fileName \in FileNames : HandleFileToggle(fileName)
    \/ \E i \in 1..Len(pendingInit) : InitMapResume(i, "resolved")
    \/ \E i \in 1..Len(instances) : MapLoad(i)
    \/ \E top \in ClickTargets(FileNames) : MapClick(top)
    \/ \E formPaint \in FormPaints : UpdateLayerStyle(formPaint)

SpecStyle == Init /\ [][NextStyle]_vars

\* The life of the map instances: the baseLayer prop changes, the initMap calls
\* get their token or fail, the instances load, the component unmounts; files
\* with a feature are uploaded and switched on and off meanwhile.
NextInstances ==
    \/ \E fileName \in FileNames : ReaderOnload(fileName, OneFeature)
    \/ \E fileName \in FileNames : HandleFileToggle(fileName)
    \/ \E style \in BaseLayers : BaseLayerChange(style)
    \/ \E i \in 1..Len(pendingInit), outcome \in TokenOutcomes : InitMapResume(i, outcome)
    \/ \E i \in 1..Len(instances) : MapLoad(i)
    \/ Unmount

SpecInstances == Init /\ [][NextInstances]_vars

\* ------------------------------------------------------------------ claims

\* The list stored under a key of local storage, when the key holds the JSON text
\* of that list.
Stores(store, key, list) ==
    /\ HasItem(store, key)
    /\ JSONParse(store[key]).ok
    /\ JSToList(JSONParse(store[key]).v) = list

ListKeys == {"activeLayers", "uploadedFiles", "activeFiles"}

\* C1: between any two operations of the page (layer toggles, uploads by drop or by
\* confirmation, local or remote and answered whenever, deletes, file toggles, page
\* loads), each of the three keys that has been written holds the JSON text of the
\* list of the same name that the page holds in memory.
C1_ListsPersisted ==
    /\ HasItem(localStorage, "activeLayers") => Stores(localStorage, "activeLayers", activeLayers)
    /\ HasItem(localStorage, "uploadedFiles") => Stores(localStorage, "uploadedFiles", uploadedFiles)
    /\ HasItem(localStorage, "activeFiles") => Stores(localStorage, "activeFiles", activeFiles)

\* C1's case: all three keys are written, a remote upload has been answered (its
\* URL is stored) while another is awaited, and two files are uploaded, one active.
C1_Witness ==
    /\ ListKeys \subseteq DOMAIN localStorage
    /\ \E f \in FileNames : HasItem(localStorage, FileKey(f)) /\ localStorage[FileKey(f)] = ResultUrl
    /\ inflight # <<>>
    /\ Len(uploadedFiles) = 2
    /\ activeFiles # <<>>
    /\ activeLayers = <<"buildings">>

\* C2: a page load sets each list to the list stored under its key when the key
\* exists, and to its default (['roads'] for activeLayers, [] for the other two)
\* when it does not; and once all three keys are written, a page load brings back
\* exactly the three lists the page held before it.
C2_ReloadRestores ==
    [][last'.op = "reload" =>
        /\ IF HasItem(localStorage, "activeLayers")
           THEN localStorage["activeLayers"] = JSONStringify(ListToJS(activeLayers'))
           ELSE activeLayers' = <<"roads">>
        /\ IF HasItem(localStorage, "uploadedFiles")
           THEN localStorage["uploadedFiles"] = JSONStringify(ListToJS(uploadedFiles'))
           ELSE uploadedFiles' = <<>>
        /\ IF HasItem(localStorage, "activeFiles")
           THEN localStorage["activeFiles"] = JSONStringify(ListToJS(activeFiles'))
           ELSE activeFiles' = <<>>
        /\ ListKeys \subseteq DOMAIN localStorage =>
             /\ activeLayers' = activeLayers
             /\ uploadedFiles' = uploadedFiles
             /\ activeFiles' = activeFiles
    ]_vars

\* C2's case: the page has just been loaded from a storage that holds all three
\* keys, with no layer active (not the default), two files uploaded, one active.
C2_Witness ==
    /\ last.op = "reload"
    /\ ListKeys \subseteq DOMAIN localStorage
    /\ activeLayers = <<>>
    /\ Len(uploadedFiles) = 2
    /\ Len(activeFiles) = 1

\* C3: every value the application has put into local storage, under the three list
\* keys and under every 'file:<name>' key, parses as JSON.
C3_StoredValuesParse ==
    \A key \in DOMAIN localStorage : JSONParse(localStorage[key]).ok

\* C4: when handleLayerNameConfirm(N, false) runs on a pending content that parses as
\* the value C, then afterwards 'file:N' holds the JSON text of C, N is appended once
\* at the end of uploadedFiles, the 'file:N' entry was written before the list, the
\* modal is closed and the pending name and content are empty.
C4_LocalUploadStored ==
    [][last'.op = "handleLayerNameConfirm" =>
        /\ last'.outcome = "parseError" <=> ~JSONParse(currentUploadedFileContent).ok
        /\ last'.outcome = "ok" =>
             LET N == last'.name
                 C == JSONParse(currentUploadedFileContent)
             IN  /\ C.ok
                 /\ HasItem(localStorage', FileKey(N))
                 /\ localStorage'[FileKey(N)] = JSONStringify(C.v)
                 /\ JSONParse(localStorage'[FileKey(N)]) = C
                 /\ uploadedFiles' = Append(uploadedFiles, N)
                 /\ last'.writes = <<FileKey(N), "uploadedFiles">>
                 /\ ~isModalOpen'
                 /\ currentUploadedFileName' = ""
                 /\ currentUploadedFileContent' = <<>>
    ]_vars

\* C4's case: a local confirmation has just stored, as the second upload, a file
\* under a name typed into the modal, and the stored text is not the spaced-out text
\* that was dropped but the text JSON.stringify makes of its value.
C4_Witness ==
    /\ last.op = "handleLayerNameConfirm"
    /\ last.outcome = "ok"
    /\ Len(uploadedFiles) = 2
    /\ uploadedFiles[2] = last.name
    /\ localStorage[FileKey(last.name)] # NoFeature
    /\ JSONParse(localStorage[FileKey(last.name)]) = JSONParse(NoFeature)
    /\ ~isModalOpen

\* C5: when handleLayerNameConfirm fails (the pending content does not parse, the
\* request is rejected, or the response is not OK), uploadError becomes a message,
\* uploadedFiles and local storage stay as they are, no new request is sent, and the
\* modal ends closed with the pending name and content cleared; nor does the call
\* change uploadedFiles or local storage while its request is awaited.
C5_FailedUploadChangesNothing ==
    [][/\ (\/ /\ last'.op = "handleLayerNameConfirm"
              /\ ~JSONParse(currentUploadedFileContent).ok
           \/ /\ last'.op = "uploadResponse"
              /\ last'.outcome \in {"notOk", "rejected"})
          => /\ uploadError' # NULL
             /\ uploadedFiles' = uploadedFiles
             /\ localStorage' = localStorage
             /\ Len(inflight') <= Len(inflight)
             /\ last'.op = "uploadResponse" => Len(inflight') = Len(inflight) - 1
             /\ ~isModalOpen'
             /\ currentUploadedFileName' = ""
             /\ currentUploadedFileContent' = <<>>
       /\ (last'.op = "handleLayerNameConfirm" /\ last'.outcome = "awaiting")
          => /\ uploadedFiles' = uploadedFiles
             /\ localStorage' = localStorage
    ]_vars

\* C5's case: a remote upload has just been answered with a response that is not
\* OK, while a file is uploaded and stored, and the modal had been showing a newly
\* dropped file.
C5_Witness ==
    /\ last.op = "uploadResponse"
    /\ last.outcome = "notOk"
    /\ uploadError = UploadErrorMessage
    /\ uploadedFiles # <<>>
    /\ \E f \in FileNames : HasItem(localStorage, FileKey(f))
    /\ ~isModalOpen

\* C6: when the content of a dropped .json/.geojson file does not parse in handleDrop,
\* or the stored content of an active file does not parse in the layer effect, an
\* error message of the page or of the map is set.
C6_ParseFailuresSurfaced ==
    (\/ last.op = "readerOnload" /\ last.outcome = "parseError"
     \/ \E f \in last.caught :
          HasItem(localStorage, FileKey(f)) /\ ~JSONParse(localStorage[FileKey(f)]).ok)
    => (uploadError # NULL \/ mapError # NULL)

\* C7: once the map has loaded and the layer effect has run, the map holds source
\* 'geojson-source-f' and layer 'geojson-layer-f' for every active file f that an
\* upload confirmation committed.  (No call of addLayer has failed in the states
\* looked at: every source has its layer.)
C7_UploadedLayersRendered ==
    (mapLoaded /\ sources \subseteq layers) =>
        \A f \in Range(activeFiles) \cap Range(uploadedFiles) :
            f \in sources /\ f \in layers

\* C8: after every run of the layer effect on a loaded map, no layer remains for a
\* file that is not active, and the map holds the layer of a file if and only if it
\* holds its source, also when addLayer throws part-way through adding a file.
C8_LayersAndSourcesTogether ==
    mapLoaded =>
        /\ \A f \in layers : Includes(activeFiles, f)
        /\ \A f \in FileNames : f \in layers <=> f \in sources

\* C9: handleFileDelete(f) leaves f in neither list, in memory and in storage, leaves
\* no 'file:f' entry, keeps every other name where it was in both lists, and leaves
\* activeLayers alone.
C9_DeleteRemovesRecord ==
    [][last'.op = "handleFileDelete" =>
        LET f == last'.name IN
        /\ ~Includes(uploadedFiles', f)
        /\ ~Includes(activeFiles', f)
        /\ Stores(localStorage', "uploadedFiles", uploadedFiles')
        /\ Stores(localStorage', "activeFiles", activeFiles')
        /\ ~HasItem(localStorage', FileKey(f))
        /\ uploadedFiles' = FilterOut(uploadedFiles, f)
        /\ activeFiles' = FilterOut(activeFiles, f)
        /\ activeLayers' = activeLayers
    ]_vars

\* A list without duplicates whose items are predefined layers.
IsLayerSelection(list) ==
    /\ Range(list) \subseteq Range(LAYER_NAMES)
    /\ Cardinality(Range(list)) = Len(list)

\* C10: handleCheckboxChange(L) makes L present iff it was absent and leaves the
\* membership of every other layer as it was; toggling the same layer twice gives
\* back the same set of layers; and activeLayers stays a list without duplicates
\* of layers among roads and buildings.
C10_ToggleFlipsOneLayer ==
    /\ [](IsLayerSelection(activeLayers))
    /\ [](\A L \in Range(LAYER_NAMES) :
            Range(handleCheckboxChange(handleCheckboxChange(activeLayers, L), L))
              = Range(activeLayers))
    /\ [][last'.op = "handleCheckboxChange" =>
            \A M \in Range(LAYER_NAMES) :
                Includes(activeLayers', M) <=>
                    IF M = last'.name THEN ~Includes(activeLayers, M)
                    ELSE Includes(activeLayers, M)
       ]_vars

\* C10's case: roads has been switched off and on again after buildings was
\* switched on: the same two layers as before, in another order.
C10_Witness ==
    /\ last.op = "handleCheckboxChange"
    /\ last.name = "roads"
    /\ activeLayers = <<"buildings", "roads">>

\* C11: over every sequence of dragenter, dragleave and drop events in which no
\* dragleave comes at depth 0, dragCounter is the number of enters minus the number
\* of leaves since the last drop and is never negative, the overlay is hidden
\* whenever dragCounter is 0, and right after a drop dragCounter is 0 and the
\* overlay is hidden.
C11_OverlayFollowsDragDepth ==
    /\ [](/\ dragCounter = dragEnters - dragLeaves
          /\ dragCounter >= 0
          /\ dragCounter = 0 => ~isDragging)
    /\ [][last'.op \in {"handleDrop", "handleDropReaders"} =>
            dragCounter' = 0 /\ ~isDragging']_vars

\* C11's case: after a drop (the upload modal it opened is still shown) a new drag
\* has gone two elements deep and come back to depth 1, with the overlay shown.
C11_Witness ==
    /\ isModalOpen
    /\ dragEnters = 2
    /\ dragLeaves = 1
    /\ dragCounter = 1
    /\ isDragging

\* C12: on the modal-driven page a drop hands on its first file only and nothing
\* when it carries no file; a drop and a cancel leave the three lists and local
\* storage as they are; and uploadedFiles grows only in a handleLayerNameConfirm
\* call that succeeds, by the name that call was given.
C12_UploadOnlyByConfirmation ==
    /\ [][\A files \in DroppedFileLists : HandleDropEvent(files) =>
            IF Len(files) = 0
            THEN UNCHANGED <<pageVars, localStorage, inflight>>
            ELSE /\ currentUploadedFileName' = files[1].name
                 /\ currentUploadedFileContent' = files[1].content
                 /\ isModalOpen'
       ]_vars
    /\ [][last'.op \in {"handleDrop", "closeModal"} =>
            UNCHANGED <<uploadedFiles, activeFiles, activeLayers, localStorage, inflight>>
       ]_vars
    /\ [][Len(uploadedFiles') > Len(uploadedFiles) =>
            /\ last'.op \in {"handleLayerNameConfirm", "uploadResponse"}
            /\ last'.outcome = "ok"
            /\ uploadedFiles' = Append(uploadedFiles, last'.name)
       ]_vars

\* C12's case: a drop has been cancelled (its file is still the pending one) on a
\* page that holds an uploaded, active file and stored lists.
C12_Witness ==
    /\ last.op = "closeModal"
    /\ currentUploadedFileName # ""
    /\ ~isModalOpen
    /\ uploadedFiles # <<>>
    /\ activeFiles # <<>>
    /\ HasItem(localStorage, "uploadedFiles")

\* C13: transformRequest adds the Authorization header, with the access token as
\* bearer, if and only if the URL is addressed to the host api.os.uk over https; a
\* request to the page's own origin gets same-origin credentials and no
\* Authorization header; every other request is left as it is.
C13_TokenOnlyToTileProvider ==
    request # NoRequest =>
        LET toProvider == Scheme(request.url) = Https /\ Host(request.url) = TileProviderHost
            toPage == UrlOrigin(request.url) = request.origin
        IN  /\ requestParameters.Authorization # NULL <=> toProvider
            /\ toProvider => /\ requestParameters.Authorization = Bearer(request.token)
                             /\ requestParameters.url = request.url
            /\ (toPage /\ ~toProvider) =>
                  /\ requestParameters.credentials = "same-origin"
                  /\ requestParameters.Authorization = NULL
            /\ (~toPage /\ ~toProvider) => requestParameters = Unmodified

\* C14: each time the connections modal becomes open one fetch starts, with
\* isLoading true and error null; when a fetch settles isLoading is false and
\* either connections is the returned data and error is null (OK response) or
\* error is a message and connections is as before; and isLoading is true for as
\* long as a fetch is in flight, also over closing and reopening the modal.
C14_LoadingAndErrorsFaithful ==
    /\ [][(~isOpen /\ isOpen') =>
            fetches' = fetches + 1 /\ isLoading' /\ error' = NULL]_vars
    /\ [][fetches' < fetches =>
            /\ ~isLoading'
            /\ IF settled'.outcome = "ok"
               THEN connections' = settled'.data /\ error' = NULL
               ELSE error' # NULL /\ connections' = connections]_vars
    /\ [](fetches > 0 => isLoading)

\* C15: selectedLayer becomes set only by a click whose top feature belongs to a
\* layer with an id 'geojson-layer-...', and then names that layer; saving the form
\* sets the three fill paint properties of that layer and resets selectedLayer to
\* null; and whatever clicks, saves and changes of activeFiles have happened, a
\* selectedLayer that is set names a layer that is on the map.
C15_StyleFormBoundToLayer ==
    /\ [][(selectedLayer' # NULL /\ selectedLayer' # selectedLayer) =>
            /\ last'.op = "mapClick"
            /\ IsGeoJsonLayerId(last'.name)
            /\ selectedLayer' = last'.name]_vars
    /\ [][\A formPaint \in FormPaints : UpdateLayerStyle(formPaint) =>
            /\ FileOf(selectedLayer) \in layers'
            /\ paint'[FileOf(selectedLayer)] = formPaint
            /\ selectedLayer' = NULL]_vars
    /\ [](selectedLayer # NULL => \E f \in layers : selectedLayer = LayerId(f))

\* C16: after any sequence of uploads, deletes and toggles of files, a toggle being
\* issued only for a name in uploadedFiles, every name in activeFiles is also in
\* uploadedFiles, also when a name has been uploaded more than once.
C16_ActiveFilesAreUploaded ==
    Range(activeFiles) \subseteq Range(uploadedFiles)

\* C16's case: one name has been uploaded twice and switched on, after another
\* name was uploaded by a drop and deleted again.
C16_Witness ==
    /\ uploadedFiles = <<"a.json", "a.json">>
    /\ activeFiles = <<"a.json">>
    /\ HasItem(localStorage, FileKey("b.geojson"))
    /\ Stores(localStorage, "activeFiles", activeFiles)

\* The instances that were created and never removed.
LiveInstances == {i \in 1..Len(instances) : ~instances[i].removed}

\* C17: however mount, baseLayer changes, unmount and the completions of the token
\* retrieval interleave, every map instance that was created is the one in
\* map.current or has been removed; and once the component has unmounted and no
\* initMap call is pending, no instance is left that was not removed.
C17_OneLiveMapInstance ==
    /\ LiveInstances \subseteq {mapCurrent}
    /\ (~mounted /\ pendingInit = <<>>) => LiveInstances = {}

\* The active files whose stored content the layer effect can put on the map.
Renderable(af, store) ==
    {f \in Range(af) : HasItem(store, FileKey(f)) /\ ProcessGeoJson(store[FileKey(f)])}

\* C18: when the instance in map.current fires load, also the instance that
\* replaces another after a change of baseLayer, the layer effect runs on it and
\* (no call on the map failing, no other instance being alive) leaves it with the
\* layer of every active file whose stored content parses; and mapLoaded is true
\* only while the instance in map.current has fired load.
C18_LayersSurviveBaseLayerChange ==
    /\ [][(/\ last'.op = "mapLoad"
           /\ last'.caught = {}
           /\ mapCurrent # NoMap
           /\ LiveInstances = {mapCurrent}
           /\ instances'[mapCurrent].loaded)
          => Renderable(activeFiles, localStorage) \subseteq layers']_vars
    /\ [](mapLoaded => (mapCurrent # NoMap /\ instances[mapCurrent].loaded))

====
